---- MODULE Spec2Model ----
(***************************************************************************)
(* Model of geoapify_from_any.py: the per-file extraction loop of main(),  *)
(* marker de-duplication, per-file thinning, global track-point capping,   *)
(* geometry emission (with the polyline encoder), marker thinning and the  *)
(* padded, clamped area rectangle; the TRC/NMEA line parsers with the      *)
(* coordinate order resolver, the NMEA date scan, and what the XML parsers *)
(* do with unreadable files and with values that are not numbers.          *)
(*                                                                         *)
(* Numbers.  A coordinate is an integer x that stands for                  *)
(*     DegPart(x) / CoordK  degrees  +  FracPart(x) * 10^-8 degrees,       *)
(* with -CoordK/2 <= FracPart(x) < CoordK/2.  Order, sums, differences and *)
(* min/max of coordinates are the integer ones; only the two roundings     *)
(* (round(x, 7) and round(x * 10^6)) look at the two parts.  Roundings go  *)
(* to the nearest value, and an exact decimal tie goes to the even one.    *)
(* Strings are sequences of one-character strings.                         *)
(***************************************************************************)
EXTENDS Integers, Sequences, FiniteSets, TLC

VARIABLES
    args,                \* the parsed command line (argparse namespace)
    inputs,              \* args.inputs: the files, each with what its parsers return
    idx,                 \* position of the file loop in inputs
    pc,                  \* position of main(): files, cap, emit, bounds, thin, area, done
    markers,             \* markers: list of marker dicts
    seen_markers,        \* seen_markers: set of dedup keys
    dates,               \* dates: list of per-file dates
    collected_segments,  \* collected_segments: list of {'points', 'date'}
    min_lat, min_lon, max_lat, max_lon,   \* running extent
    features,            \* GeoJSON LineString coordinate lists
    geometries,          \* polyline / polyline6 geometries
    area,                \* body["area"]["value"], or NoArea
    cands,               \* history: every marker candidate that reached the dedup test
    pre_cap,             \* history: collected_segments as the capping step found them
    pre_thin,            \* history: markers as the marker thinning step found them
    meta_date,           \* body["meta"]["date"], or NoDate
    marker_hist          \* history: markers as they were after each file

vars == <<args, inputs, idx, pc, markers, seen_markers, dates, collected_segments,
          min_lat, min_lon, max_lat, max_lon, features, geometries, area,
          cands, pre_cap, pre_thin, meta_date, marker_hist>>

----------------------------------------------------------------------------
(* Numbers *)

CoordK == 10 ^ 3
Deg(d) == d * CoordK

\* float('inf'): above every coordinate of the model
Inf == 1000000
\* the denominator of --pad-frac; area values are kept multiplied by it
PadDen == 2 * 5

Min2(a, b) == IF a < b THEN a ELSE b
Max2(a, b) == IF a > b THEN a ELSE b

FracPart(x) == ((x + CoordK \div 2) % CoordK) - CoordK \div 2
DegPart(x) == x - FracPart(x)

\* round(n / d) for an integer n and d > 0, ties to the even integer
RoundHalfEven(n, d) ==
    LET q == n \div d
        r == n % d
    IN  IF 2 * r < d THEN q
        ELSE IF 2 * r > d THEN q + 1
        ELSE IF q % 2 = 0 THEN q ELSE q + 1

\* round(x, 7): FracPart counts 10^-8 degrees, so the 7th decimal is ten of them
Round7(x) == DegPart(x) + 10 * RoundHalfEven(FracPart(x), 10)

\* int(round(x * factor)), factor = 10 ** precision, precision <= 8
ScaleRound(x, precision) ==
    (DegPart(x) \div CoordK) * (10 ^ precision)
        + RoundHalfEven(FracPart(x), 10 ^ (8 - precision))

----------------------------------------------------------------------------
(* Sequences *)

RECURSIVE SumLen(_)
SumLen(ss) == IF ss = <<>> THEN 0 ELSE Len(Head(ss)) + SumLen(Tail(ss))

RECURSIVE Flatten(_)
Flatten(ss) == IF ss = <<>> THEN <<>> ELSE Head(ss) \o Flatten(Tail(ss))

SelectSeqIdx(s, Keep(_)) ==
    LET F[i \in 0..Len(s)] ==
          IF i = 0 THEN <<>>
          ELSE IF Keep(i) THEN Append(F[i-1], s[i]) ELSE F[i-1]
    IN  F[Len(s)]

\* seg[::n], n >= 1: the elements at Python indices 0, n, 2n, ...
SliceStep(seg, n) ==
    [i \in 1..((Len(seg) + n - 1) \div n) |-> seg[(i - 1) * n + 1]]

\* seg[1:-1:n], n >= 1: the elements at Python indices 1, 1+n, ... below len-1
SliceCore(seg, n) ==
    IF Len(seg) <= 2 THEN <<>>
    ELSE [i \in 1..((Len(seg) - 2 + n - 1) \div n) |-> seg[(i - 1) * n + 2]]

----------------------------------------------------------------------------
(* encode_polyline *)

\* the while loop of encode_polyline on one zig-zag value s >= 0: character codes
RECURSIVE EncodeChunks(_)
EncodeChunks(s) ==
    IF s >= 32 THEN <<(32 + (s % 32)) + 63>> \o EncodeChunks(s \div 32)
    ELSE <<s + 63>>

\* the zig-zag step with -(d << 1) in place of ~(d << 1)
EncodeValueNoComplement(d) == EncodeChunks(IF d < 0 THEN -(2 * d) ELSE 2 * d)

\* s = (~(d << 1)) if d < 0 else (d << 1), then the chunks
EncodeValue(d) == EncodeChunks(IF d < 0 THEN (-(2 * d)) - 1 ELSE 2 * d)

RECURSIVE EncodeFrom(_, _, _, _)
EncodeFrom(points, prev_lat, prev_lon, precision) ==
    IF points = <<>> THEN <<>>
    ELSE LET ilat == ScaleRound(Head(points)[1], precision)
             ilon == ScaleRound(Head(points)[2], precision)
         IN  EncodeValue(ilat - prev_lat) \o EncodeValue(ilon - prev_lon)
                \o EncodeFrom(Tail(points), ilat, ilon, precision)

encode_polyline(points, precision) == EncodeFrom(points, 0, 0, precision)

----------------------------------------------------------------------------
(* clamp_bbox, on values multiplied by PadDen *)

LatLimit == Deg(90) * PadDen
LonLimit == Deg(180) * PadDen

\* clamp_bbox without the two swaps that restore the axis order
clamp_bbox_noswap(lat1, lat2, lon1, lon2) ==
    [lat1 |-> Max2(-LatLimit, Min2(LatLimit, lat1)),
     lat2 |-> Max2(-LatLimit, Min2(LatLimit, lat2)),
     lon1 |-> Max2(-LonLimit, Min2(LonLimit, lon1)),
     lon2 |-> Max2(-LonLimit, Min2(LonLimit, lon2))]

clamp_bbox(lat1, lat2, lon1, lon2) ==
    LET a1 == Max2(-LatLimit, Min2(LatLimit, lat1))
        a2 == Max2(-LatLimit, Min2(LatLimit, lat2))
        o1 == Max2(-LonLimit, Min2(LonLimit, lon1))
        o2 == Max2(-LonLimit, Min2(LonLimit, lon2))
    IN  [lat1 |-> Min2(a1, a2), lat2 |-> Max2(a1, a2),
         lon1 |-> Min2(o1, o2), lon2 |-> Max2(o1, o2)]

----------------------------------------------------------------------------
(* TRC / NMEA-like lines.  A line of such a file is a record: kind is the       *)
(* sentence type ("RMC", "GGA", "ZDA") or "nums" for a line that is no sentence *)
(* and is scanned for numbers.  A degrees-minutes field ddmm.mmmm is the        *)
(* integer 100 * dd + mm; the files of the model use whole minutes.             *)

NoPair == <<>>         \* None

InLat(x) == Deg(-90) <= x /\ x <= Deg(90)
InLon(x) == Deg(-180) <= x /\ x <= Deg(180)

\* deg = int(f // 100); minutes = f - deg*100; dec = deg + minutes/60; S and W negate
dm_to_dec(dm, hemi) ==
    LET deg == dm \div 100
        minutes == dm - deg * 100
        dec == Deg(deg) + (Deg(minutes) \div 60)
    IN  IF hemi \in {"S", "W"} THEN -dec ELSE dec

\* deg = int(v // 100); minutes = v - 100*deg; deg + minutes/60  (unsigned)
dm_to_deg(dm) ==
    LET deg == dm \div 100
        minutes == dm - 100 * deg
    IN  Deg(deg) + (Deg(minutes) \div 60)

\* RMC with status A or V, or GGA: (lat, lon) from the two degrees-minutes fields
parse_nmea_line(l) ==
    IF l.kind = "RMC"
    THEN IF l.status \in {"A", "V"}
         THEN <<dm_to_dec(l.lat_dm, l.ns), dm_to_dec(l.lon_dm, l.ew)>>
         ELSE NoPair
    ELSE IF l.kind = "GGA"
    THEN <<dm_to_dec(l.lat_dm, l.ns), dm_to_dec(l.lon_dm, l.ew)>>
    ELSE NoPair

\* the three loops of find_pair from Python index i - 1 on; force is "lonlat",
\* "latlon" or "none"
RECURSIVE FindPairFrom(_, _, _)
FindPairFrom(nums, i, force) ==
    IF i > Len(nums) - 1 THEN NoPair
    ELSE LET a == nums[i]
             b == nums[i + 1]
         IN  IF force = "lonlat"
             THEN IF InLon(a) /\ InLat(b) THEN <<b, a>> ELSE FindPairFrom(nums, i + 1, force)
             ELSE IF force = "latlon"
             THEN IF InLat(a) /\ InLon(b) THEN <<a, b>> ELSE FindPairFrom(nums, i + 1, force)
             ELSE IF InLon(a) /\ InLat(b) THEN <<b, a>>
             ELSE IF InLat(a) /\ InLon(b) THEN <<a, b>>
             ELSE FindPairFrom(nums, i + 1, force)

\* the unforced loop with the two tests in the other order
RECURSIVE FindPairLatFirst(_, _)
FindPairLatFirst(nums, i) ==
    IF i > Len(nums) - 1 THEN NoPair
    ELSE IF InLat(nums[i]) /\ InLon(nums[i + 1]) THEN <<nums[i], nums[i + 1]>>
    ELSE IF InLon(nums[i]) /\ InLat(nums[i + 1]) THEN <<nums[i + 1], nums[i]>>
    ELSE FindPairLatFirst(nums, i + 1)

\* find_pair with latitude-then-longitude tried first at each position
find_pair_latfirst(nums, force) ==
    IF force = "none" THEN FindPairLatFirst(nums, 1) ELSE FindPairFrom(nums, 1, force)

find_pair(nums, force) == FindPairFrom(nums, 1, force)

\* parse_trc_segments without --split-on-empty: one segment of the points of the
\* lines, kept when it has 2 points or more
RECURSIVE TrcPoints(_, _)
TrcPoints(lines, order) ==
    IF lines = <<>> THEN <<>>
    ELSE LET l == Head(lines)
             nmea == parse_nmea_line(l)
             pair == find_pair(l.nums, order)
             rest == TrcPoints(Tail(lines), order)
         IN  IF nmea # NoPair THEN <<nmea>> \o rest
             ELSE IF l.kind # "nums" THEN rest
             ELSE IF pair # NoPair THEN <<pair>> \o rest
             ELSE rest

parse_trc_segments(lines, order) ==
    LET seg == TrcPoints(lines, order)
    IN  IF Len(seg) >= 2 THEN <<seg>> ELSE <<>>

----------------------------------------------------------------------------
(* Dates *)

NoDate == <<>>         \* date is None; a date is <<year, month, day>>

\* the order of "YYYY-MM-DD" strings
DateLe(a, b) ==
    \/ a[1] < b[1]
    \/ a[1] = b[1] /\ a[2] < b[2]
    \/ a[1] = b[1] /\ a[2] = b[2] /\ a[3] <= b[3]

IsLeap(y) == (y % 4 = 0 /\ y % 100 # 0) \/ y % 400 = 0

DaysIn(y, m) ==
    IF m \in {4, 6, 9, 11} THEN 30
    ELSE IF m = 2 THEN (IF IsLeap(y) THEN 29 ELSE 28)
    ELSE 31

\* datetime(y, m, d) does not raise ValueError
PossibleDate(y, m, d) ==
    /\ 1 <= y /\ y <= 9999
    /\ 1 <= m /\ m <= 12
    /\ 1 <= d /\ d <= DaysIn(y, m)

\* _ZDA_RE: day [0-3]\d, month [01]\d, year \d{4}
ZdaMatches(l) ==
    l.kind = "ZDA" /\ l.day \in 0..39 /\ l.month \in 0..19 /\ l.year \in 0..9999

\* _RMC_RE: status A or V, N or S, E or W, then ddmmyy
RmcMatches(l) ==
    /\ l.kind = "RMC" /\ l.status \in {"A", "V"} /\ l.ns \in {"N", "S"} /\ l.ew \in {"E", "W"}
    /\ l.day \in 0..39 /\ l.month \in 0..19 /\ l.year \in 0..99

\* the loop of _date_from_nmea_like; the result is [best, raised]
RECURSIVE DateScan(_, _)
DateScan(lines, best) ==
    IF lines = <<>> THEN [best |-> best, raised |-> FALSE]
    ELSE LET l == Head(lines)
             y == IF ZdaMatches(l) THEN l.year ELSE 2000 + l.year
             d == <<y, l.month, l.day>>
         IN  IF ZdaMatches(l) \/ RmcMatches(l)
             THEN IF ~PossibleDate(y, l.month, l.day) THEN [best |-> best, raised |-> TRUE]
                  ELSE DateScan(Tail(lines),
                                IF best = NoDate \/ (DateLe(d, best) /\ d # best)
                                THEN d ELSE best)
             ELSE DateScan(Tail(lines), best)

\* except Exception: return None;  return best.strftime(ISO) if best else None
_date_from_nmea_like(lines) ==
    LET r == DateScan(lines, NoDate)
    IN  IF r.raised THEN NoDate ELSE r.best

----------------------------------------------------------------------------
(* Marker names *)

Ellipsis == "..."      \* the one character U+2026
DigitChar == <<"0", "1", "2", "3", "4", "5", "6", "7", "8", "9">>

RECURSIVE IntToStr(_)
IntToStr(n) ==
    IF n < 10 THEN <<DigitChar[n + 1]>>
    ELSE IntToStr(n \div 10) \o <<DigitChar[(n % 10) + 1]>>

\* f"{stem}_{counter}"
SynthName(stem, counter) == stem \o <<"_">> \o IntToStr(counter)

RECURSIVE Strip(_)
Strip(nm) ==
    IF nm = <<>> THEN nm
    ELSE IF Head(nm) = " " THEN Strip(Tail(nm))
    ELSE IF nm[Len(nm)] = " " THEN Strip(SubSeq(nm, 1, Len(nm) - 1))
    ELSE nm

\* if max_name_len and len(nm) > max_name_len and max_name_len > 0:
\*     nm = nm[:max(1, max_name_len - 1)] + ellipsis
Truncate(nm, max_name_len) ==
    IF max_name_len # 0 /\ Len(nm) > max_name_len /\ max_name_len > 0
    THEN SubSeq(nm, 1, Min2(Len(nm), Max2(1, max_name_len - 1))) \o <<Ellipsis>>
    ELSE nm

\* a coordinate text that float() rejects
Malformed == -(2 * Inf)

\* the rows whose two coordinates convert
NumericRows(rows) == SelectSeq(rows, LAMBDA r : r.lat # Malformed /\ r.lon # Malformed)

\* parse_pos_file, its last loop: unnamed rows get "<stem>_<n>" in file order
RECURSIVE PosNamed(_, _, _)
PosNamed(stem, rows, unnamed) ==
    IF rows = <<>> THEN <<>>
    ELSE LET r == Head(rows)
         IN  IF r.name = <<>>
             THEN <<[r EXCEPT !.name = SynthName(stem, unnamed)]>>
                     \o PosNamed(stem, Tail(rows), unnamed + 1)
             ELSE <<r>> \o PosNamed(stem, Tail(rows), unnamed)

\* a sentence whose degrees-minutes field does not convert is passed over
parse_pos_file(f) == PosNamed(f.stem, NumericRows(f.rows), 1)

\* main, the auto-positions loop: nm = name.strip() if name else f"{stem}_{counter}"
RECURSIVE AutoNamed(_, _, _)
AutoNamed(stem, rows, counter) ==
    IF rows = <<>> THEN <<>>
    ELSE LET r == Head(rows)
         IN  IF r.name = <<>>
             THEN <<[r EXCEPT !.name = SynthName(stem, counter)]>>
                     \o AutoNamed(stem, Tail(rows), counter + 1)
             ELSE <<[r EXCEPT !.name = Strip(r.name)]>>
                     \o AutoNamed(stem, Tail(rows), counter)

----------------------------------------------------------------------------
(* Marker de-duplication *)

\* the key without the rounding of the coordinates
DedupKeyRaw(lat, lon, nm) == <<lat, lon, nm>>

\* key = (round(lat,7), round(lon,7), nm)
DedupKey(lat, lon, nm) == <<Round7(lat), Round7(lon), nm>>

\* The accumulators one marker loop reads and writes.
Acc == [markers |-> markers, seen |-> seen_markers, cands |-> cands,
        min_lat |-> min_lat, max_lat |-> max_lat,
        min_lon |-> min_lon, max_lon |-> max_lon]

\* DedupAppend without seen_markers.add(key)
DedupAppendForget(acc, r, a) ==
    LET nm  == Truncate(r.name, a.max_name_len)
        key == DedupKey(r.lat, r.lon, nm)
        c   == [lat |-> r.lat, lon |-> r.lon, text |-> nm]
        acc1 == [acc EXCEPT !.cands = Append(@, c)]
    IN  IF key \in acc.seen THEN acc1
        ELSE [acc1 EXCEPT
                !.markers = Append(@, IF a.no_text THEN [lat |-> r.lat, lon |-> r.lon]
                                      ELSE c),
                !.min_lat = IF r.lat < @ THEN r.lat ELSE @,
                !.max_lat = IF r.lat > @ THEN r.lat ELSE @,
                !.min_lon = IF r.lon < @ THEN r.lon ELSE @,
                !.max_lon = IF r.lon > @ THEN r.lon ELSE @]

\* One iteration of a marker loop, from the truncation on.
DedupAppend(acc, r, a) ==
    LET nm  == Truncate(r.name, a.max_name_len)
        key == DedupKey(r.lat, r.lon, nm)
        c   == [lat |-> r.lat, lon |-> r.lon, text |-> nm]
        acc1 == [acc EXCEPT !.cands = Append(@, c)]
    IN  IF key \in acc.seen THEN acc1
        ELSE [acc1 EXCEPT
                !.seen = @ \cup {key},
                !.markers = Append(@, IF a.no_text THEN [lat |-> r.lat, lon |-> r.lon]
                                      ELSE c),
                !.min_lat = IF r.lat < @ THEN r.lat ELSE @,
                !.max_lat = IF r.lat > @ THEN r.lat ELSE @,
                !.min_lon = IF r.lon < @ THEN r.lon ELSE @,
                !.max_lon = IF r.lon > @ THEN r.lon ELSE @]

RECURSIVE AddMarkers(_, _, _)
AddMarkers(acc, rows, a) ==
    IF rows = <<>> THEN acc
    ELSE AddMarkers(DedupAppend(acc, Head(rows), a), Tail(rows), a)

----------------------------------------------------------------------------
(* The file loop of main() *)

NoArea == <<>>         \* body has no "area"
KmlMarkerFloor == 100  \* max(100, args.max_markers)

TrackExts == {"gpx", "kml", "kmz", "trc", "nma", "nmea", "log", "txt"}
KmlExts == {"kml", "kmz"}
NmeaExts == {"trc", "nma", "nmea", "log", "txt"}

\* if lat < min_lat: min_lat = lat ... over the points of the segments, in order
Extent(points, lo_lat, hi_lat, lo_lon, hi_lon) ==
    LET F[i \in 0..Len(points)] ==
          IF i = 0
          THEN [min_lat |-> lo_lat, max_lat |-> hi_lat, min_lon |-> lo_lon, max_lon |-> hi_lon]
          ELSE LET e == F[i - 1]
                   lat == points[i][1]
                   lon == points[i][2]
               IN  [min_lat |-> IF lat < e.min_lat THEN lat ELSE e.min_lat,
                    max_lat |-> IF lat > e.max_lat THEN lat ELSE e.max_lat,
                    min_lon |-> IF lon < e.min_lon THEN lon ELSE e.min_lon,
                    max_lon |-> IF lon > e.max_lon THEN lon ELSE e.max_lon]
    IN  F[Len(points)]

\* parse_gpx_segments / parse_kmx_segments on the point lists of the file: a point
\* whose lat or lon does not convert is passed over ("except Exception: pass"), and
\* a list is kept when 2 points or more remain
XmlSegments(raw) ==
    LET pts(i) == SelectSeq(raw[i], LAMBDA p : p[1] # Malformed /\ p[2] # Malformed)
    IN  SelectSeq([i \in 1..Len(raw) |-> pts(i)], LAMBDA seg : Len(seg) >= 2)

\* segs of a track file: the parser's segments, or the merged singletons of a GPX
\* file that has none
\* a file that cannot be opened as XML or as an archive makes every parser return []
ParsedSegs(f, a) ==
    IF ~f.parses THEN <<>>
    ELSE IF f.ext \in NmeaExts THEN parse_trc_segments(f.lines, a.order)
    ELSE IF f.ext = "gpx" /\ XmlSegments(f.segs) = <<>> /\ a.gpx_merge_singletons
            /\ Len(f.pts_all) >= 2
    THEN <<f.pts_all>>
    ELSE XmlSegments(f.segs)

\* date = _date_from_<format>(path) or _fallback_mtime(path)
FileDate(f) ==
    LET d == IF f.ext \in NmeaExts THEN _date_from_nmea_like(f.lines)
             ELSE IF f.parses THEN f.date ELSE NoDate
    IN  IF d # NoDate THEN d ELSE f.mtime

\* if args.thin > 1 and segs: segs = [seg[::args.thin] for seg in segs if len(seg) >= 2]
ThinSegs(segs, thin) ==
    IF thin > 1 /\ segs # <<>>
    THEN [i \in 1..Len(SelectSeq(segs, LAMBDA seg : Len(seg) >= 2)) |->
            SliceStep(SelectSeq(segs, LAMBDA seg : Len(seg) >= 2)[i], thin)]
    ELSE segs

\* the positions a track file contributes, after the KML/KMZ suppression rule
\* parse_positions_gpx converts with float(lat), float(lon) outside any try: for a
\* waypoint that does not convert it raises, and the "except Exception: pass"
\* around the marker block of main leaves the file without markers.
\* parse_positions_kmx and parse_positions_trc pass over the one item.
AutoPositions(f, segs, a) ==
    IF ~f.parses THEN <<>>
    ELSE IF f.ext = "gpx"
    THEN IF NumericRows(f.rows) # f.rows THEN <<>> ELSE f.rows
    ELSE IF f.ext \in KmlExts
    THEN IF segs # <<>> /\ Len(NumericRows(f.rows)) > Max2(KmlMarkerFloor, a.max_markers)
         THEN <<>> ELSE NumericRows(f.rows)
    ELSE NumericRows(f.rows)

File == inputs[idx]

NextFile ==
    /\ idx' = idx + 1
    /\ pc' = IF idx + 1 > Len(inputs) THEN "cap" ELSE "files"
    /\ marker_hist' = Append(marker_hist, markers')

\* if not os.path.isfile(path): [SKIP] not found
SkipMissing ==
    /\ pc = "files"
    /\ ~File.exists
    /\ UNCHANGED <<args, inputs, markers, seen_markers, dates, collected_segments,
                   min_lat, min_lon, max_lat, max_lon, features, geometries, area,
                   cands, pre_cap, pre_thin, meta_date>>
    /\ NextFile

\* [SKIP] unsupported extension
SkipUnsupported ==
    /\ pc = "files"
    /\ File.exists
    /\ File.ext # "pos" /\ File.ext \notin TrackExts
    /\ UNCHANGED <<args, inputs, markers, seen_markers, dates, collected_segments,
                   min_lat, min_lon, max_lat, max_lon, features, geometries, area,
                   cands, pre_cap, pre_thin, meta_date>>
    /\ NextFile

\* ext == "pos": markers only
ProcessPos ==
    /\ pc = "files"
    /\ File.exists
    /\ File.ext = "pos"
    /\ LET pts == parse_pos_file(File)
           acc == AddMarkers(Acc, pts, args)
       IN  /\ markers' = acc.markers
           /\ seen_markers' = acc.seen
           /\ cands' = acc.cands
           /\ min_lat' = acc.min_lat /\ max_lat' = acc.max_lat
           /\ min_lon' = acc.min_lon /\ max_lon' = acc.max_lon
    /\ UNCHANGED <<args, inputs, dates, collected_segments, features, geometries, area,
                   pre_cap, pre_thin, meta_date>>
    /\ NextFile

\* gpx / kml / kmz / trc ...: segments, date, bounds, then auto-positions
ProcessTrack ==
    /\ pc = "files"
    /\ File.exists
    /\ File.ext \in TrackExts
    /\ LET segs == ThinSegs(ParsedSegs(File, args), args.thin)
           date == FileDate(File)
           e    == Extent(Flatten(segs), min_lat, max_lat, min_lon, max_lon)
           acc0 == [Acc EXCEPT !.min_lat = e.min_lat, !.max_lat = e.max_lat,
                               !.min_lon = e.min_lon, !.max_lon = e.max_lon]
           pos_pts == IF args.auto_positions THEN AutoPositions(File, segs, args) ELSE <<>>
           acc  == AddMarkers(acc0, AutoNamed(File.stem, pos_pts, 1), args)
       IN  /\ dates' = IF date # NoDate THEN Append(dates, date) ELSE dates
           /\ collected_segments' = collected_segments \o
                 [i \in 1..Len(segs) |-> [points |-> segs[i], date |-> date]]
           /\ markers' = acc.markers
           /\ seen_markers' = acc.seen
           /\ cands' = acc.cands
           /\ min_lat' = acc.min_lat /\ max_lat' = acc.max_lat
           /\ min_lon' = acc.min_lon /\ max_lon' = acc.max_lon
    /\ UNCHANGED <<args, inputs, features, geometries, area, pre_cap, pre_thin, meta_date>>
    /\ NextFile

----------------------------------------------------------------------------
(* Track point capping and emission *)

_thin_by_step(seg, step) ==
    IF step <= 1 THEN seg
    ELSE IF Len(seg) <= 2 THEN seg
    ELSE LET core == SliceCore(seg, step)
             out  == <<seg[1]>> \o core \o <<seg[Len(seg)]>>
         IN  IF Len(out) >= 2 THEN out ELSE seg

total_pts(segments) == SumLen([i \in 1..Len(segments) |-> segments[i].points])

\* step = (total_pts + (cap - 1)) // cap, for total_pts > cap > 0
CapStep(total, cap) == (total + (cap - 1)) \div cap

\* the body of "if args.cap_track_points and total_pts > args.cap_track_points"
CapSegments(segments, cap) ==
    LET step == CapStep(total_pts(segments), cap)
        thinned == [i \in 1..Len(segments) |->
                      [points |-> _thin_by_step(segments[i].points, step),
                       date |-> segments[i].date]]
    IN  SelectSeq(thinned, LAMBDA s : Len(s.points) >= 2)

CapTrackPoints ==
    /\ pc = "cap"
    /\ pre_cap' = collected_segments
    /\ collected_segments' =
          IF args.cap_track_points # 0 /\ total_pts(collected_segments) > args.cap_track_points
          THEN CapSegments(collected_segments, args.cap_track_points)
          ELSE collected_segments
    /\ pc' = "emit"
    /\ UNCHANGED <<args, inputs, idx, markers, seen_markers, dates,
                   min_lat, min_lon, max_lat, max_lon, features, geometries, area,
                   cands, pre_thin, meta_date, marker_hist>>

\* dates[0] in place of min(dates)
MinDateFirst(s) == s[1]

\* min(dates)
MinDate(s) == CHOOSE x \in {s[i] : i \in 1..Len(s)} : \A i \in 1..Len(s) : DateLe(x, s[i])

\* features / geometries from collected_segments, and body.meta.date
EmitGeometry ==
    /\ pc = "emit"
    /\ features' =
          IF args.out_type = "geojson"
          THEN [i \in 1..Len(collected_segments) |->
                  [coordinates |-> [j \in 1..Len(collected_segments[i].points) |->
                                      <<collected_segments[i].points[j][2],
                                        collected_segments[i].points[j][1]>>],
                   date |-> collected_segments[i].date]]
          ELSE <<>>
    /\ geometries' =
          IF args.out_type = "polyline6"
          THEN [i \in 1..Len(collected_segments) |->
                  [type |-> "polyline6",
                   value |-> encode_polyline(collected_segments[i].points, 6)]]
          ELSE IF args.out_type # "geojson"
          THEN [i \in 1..Len(collected_segments) |->
                  [type |-> "polyline", value |-> collected_segments[i].points]]
          ELSE <<>>
    /\ meta_date' =
          IF args.out_type # "geojson" /\ collected_segments # <<>> /\ dates # <<>>
          THEN MinDate(dates) ELSE NoDate
    /\ pc' = "bounds"
    /\ UNCHANGED <<args, inputs, idx, markers, seen_markers, dates, collected_segments,
                   min_lat, min_lon, max_lat, max_lon, area, cands, pre_cap, pre_thin, marker_hist>>

\* "Recompute bounds after capping": min/max of the running extent and the kept points
RecomputeBounds ==
    /\ pc = "bounds"
    /\ LET pts == Flatten([i \in 1..Len(collected_segments) |-> collected_segments[i].points])
           e == Extent(pts, min_lat, max_lat, min_lon, max_lon)
       IN  /\ min_lat' = e.min_lat /\ max_lat' = e.max_lat
           /\ min_lon' = e.min_lon /\ max_lon' = e.max_lon
    /\ pc' = "thin"
    /\ UNCHANGED <<args, inputs, idx, markers, seen_markers, dates, collected_segments,
                   features, geometries, area, cands, pre_cap, pre_thin, meta_date, marker_hist>>

----------------------------------------------------------------------------
(* Marker thinning *)

\* step = max(1, (n + (m-1)) // m)
MarkerStep(n, m) == Max2(1, (n + (m - 1)) \div m)

\* ThinMarkerList with the final cut markers[:m] left out
ThinMarkerListNoCut(ms, m) ==
    <<ms[1]>> \o SliceCore(ms, Max2(1, (Len(ms) + (m - 1)) \div m)) \o <<ms[Len(ms)]>>

\* markers = [markers[0]] + [markers[i] for i in range(1, n-1, step)] + [markers[-1]]
\* markers = markers[:m]                                   (n > m > 0)
ThinMarkerList(ms, m) ==
    LET n == Len(ms)
        step == MarkerStep(n, m)
        picked == <<ms[1]>> \o SliceCore(ms, step) \o <<ms[n]>>
    IN  SubSeq(picked, 1, Min2(m, Len(picked)))

ThinMarkers ==
    /\ pc = "thin"
    /\ pre_thin' = markers
    /\ markers' =
          IF args.max_markers # 0 /\ args.thin_markers /\ Len(markers) > args.max_markers
          THEN ThinMarkerList(markers, args.max_markers)
          ELSE markers
    /\ pc' = "area"
    /\ UNCHANGED <<args, inputs, idx, seen_markers, dates, collected_segments,
                   min_lat, min_lon, max_lat, max_lon, features, geometries, area,
                   cands, pre_cap, meta_date, marker_hist>>

----------------------------------------------------------------------------
(* Padded and clamped area; every value is multiplied by PadDen *)

PaddedArea(a, lo_lat, hi_lat, lo_lon, hi_lon) ==
    LET dlat == hi_lat - lo_lat
        dlon == hi_lon - lo_lon
        plat == Max2(a.pad_num * dlat, a.pad_min_deg * PadDen)
        plon == Max2(a.pad_num * dlon, a.pad_min_deg * PadDen)
    IN  clamp_bbox(lo_lat * PadDen - plat, hi_lat * PadDen + plat,
                   lo_lon * PadDen - plon, hi_lon * PadDen + plon)

BuildArea ==
    /\ pc = "area"
    /\ area' = IF min_lat # Inf
               THEN PaddedArea(args, min_lat, max_lat, min_lon, max_lon)
               ELSE NoArea
    /\ pc' = "done"
    /\ UNCHANGED <<args, inputs, idx, markers, seen_markers, dates, collected_segments,
                   min_lat, min_lon, max_lat, max_lon, features, geometries,
                   cands, pre_cap, pre_thin, meta_date, marker_hist>>

----------------------------------------------------------------------------
(* Inputs *)

MaxFiles == 2      \* files on the command line
MaxThin == 2       \* --thin
MaxCap == 3        \* --cap-track-points, when it bites

Row(lat, lon, name) == [lat |-> lat, lon |-> lon, name |-> name]
\* a segment of n points, one degree of latitude and two of longitude apart
Line(n, lat0, lon0) == [i \in 1..n |-> <<Deg(lat0 + i - 1), Deg(lon0 + 2 * (i - 1))>>]

\* the modification date of the files of the model
Mtime == <<2024, 6, 1>>

FileOf(ext, stem, segs, pts_all, rows, date) ==
    [ext |-> ext, stem |-> stem, exists |-> TRUE, parses |-> TRUE, segs |-> segs,
     pts_all |-> pts_all, rows |-> rows, date |-> date, mtime |-> Mtime, lines |-> <<>>]

\* lines of a TRC / NMEA-like file
NoField == -1          \* an empty date field
NumLine(nums) ==
    [kind |-> "nums", status |-> "", lat_dm |-> 0, ns |-> "", lon_dm |-> 0, ew |-> "",
     nums |-> nums, day |-> NoField, month |-> NoField, year |-> NoField]
PosLine(kind, status, lat_dm, ns, lon_dm, ew) ==
    [NumLine(<<>>) EXCEPT !.kind = kind, !.status = status, !.lat_dm = lat_dm, !.ns = ns,
                          !.lon_dm = lon_dm, !.ew = ew]
ZdaLine(day, month, year) ==
    [NumLine(<<>>) EXCEPT !.kind = "ZDA", !.day = day, !.month = month, !.year = year]
\* $GPRMC with its date field ddmmyy
RmcLine(status, lat_dm, ns, lon_dm, ew, day, month, yy) ==
    [PosLine("RMC", status, lat_dm, ns, lon_dm, ew)
        EXCEPT !.day = day, !.month = month, !.year = yy]
\* a numeric log of the points of a segment, each line "<lon> <lat>"
NumLines(seg) == [i \in 1..Len(seg) |-> NumLine(<<seg[i][2], seg[i][1]>>)]

\* a.pos: two waypoints 3e-8 degrees apart with one name, two unnamed at one place
FPosA == FileOf("pos", <<"a">>, <<>>, <<>>,
                <<Row(Deg(10), Deg(20), <<"H">>), Row(Deg(10) + 3, Deg(20), <<"H">>),
                  Row(Deg(11), Deg(21), <<>>), Row(Deg(11), Deg(21), <<>>)>>, <<2024, 1, 5>>)
\* b.pos: names that differ only after the second character
FPosB == FileOf("pos", <<"b">>, <<>>, <<>>,
                <<Row(Deg(10) + 6, Deg(20), <<"H">>), Row(Deg(10), Deg(20), <<"H", "a", "b">>),
                  Row(Deg(10), Deg(20), <<"H", "a", "c">>)>>, <<2024, 1, 4>>)
\* a.gpx: a 5-point and a 2-point track segment, a named and an unnamed waypoint
FGpx == FileOf("gpx", <<"a">>, <<Line(5, 0, 0), Line(2, 40, 100)>>, <<>>,
               <<Row(Deg(10) + 15, Deg(20), <<"H">>), Row(Deg(11), Deg(21), <<>>)>>,
               <<2024, 1, 3>>)
\* o.gpx: no trkseg, isolated track points and a waypoint, with latitudes above 90
\* and a longitude above 180 (float() accepts them)
FGpxOut == FileOf("gpx", <<"o">>, <<>>, <<<<Deg(95), Deg(0)>>, <<Deg(96), Deg(190)>>>>,
                  <<Row(Deg(95), Deg(0), <<"X">>)>>, NoDate)
\* k.kml: a LineString and 101 Placemark points
FKml == FileOf("kml", <<"k">>, <<Line(3, -10, -30)>>, <<>>,
               [i \in 1..(KmlMarkerFloor + 1) |-> Row(Deg(1), Deg(2), <<"P">>)], <<2024, 1, 2>>)
\* t.trc: a $GPZDA sentence, a numeric log of four points and a named waypoint
FTrc == [FileOf("trc", <<"t">>, <<>>, <<>>,
                <<Row(Deg(-5), Deg(-7), <<"T", "r", "c">>)>>, NoDate)
            EXCEPT !.lines = <<ZdaLine(1, 1, 2024)>> \o NumLines(Line(4, -2, -3))]
FMissing == [FileOf("gpx", <<"m">>, <<>>, <<>>, <<>>, NoDate) EXCEPT !.exists = FALSE]
FUnsupported == FileOf("xyz", <<"u">>, <<>>, <<>>, <<>>, NoDate)

FileSet == {FPosA, FPosB, FGpx, FGpxOut, FKml, FTrc, FMissing, FUnsupported}

RECURSIVE ListsUpTo(_, _)
ListsUpTo(S, n) ==
    IF n = 0 THEN {<<>>}
    ELSE LET shorter == ListsUpTo(S, n - 1)
         IN  shorter \cup {Append(l, x) : l \in shorter, x \in S}

InputLists(n) == ListsUpTo(FileSet, n) \ {<<>>}

\* the argparse defaults
DefaultArgs ==
    [thin |-> 1, cap_track_points |-> 10000, gpx_merge_singletons |-> FALSE,
     out_type |-> "geojson", max_name_len |-> 40, max_markers |-> 100,
     thin_markers |-> FALSE, auto_positions |-> TRUE, no_text |-> FALSE,
     pad_num |-> 2, pad_min_deg |-> 0, strict |-> FALSE, order |-> "none"]

TrackArgs ==
    {[DefaultArgs EXCEPT !.thin = t, !.cap_track_points = c, !.out_type = o,
                         !.gpx_merge_singletons = g] :
        t \in 1..MaxThin, c \in {0, MaxCap},
        o \in {"geojson", "polyline", "polyline6"}, g \in BOOLEAN}

MarkerArgs ==
    {[DefaultArgs EXCEPT !.max_name_len = l, !.max_markers = m, !.thin_markers = t,
                         !.auto_positions = p] :
        l \in {0, 2, 40}, m \in {2, 100}, t \in BOOLEAN, p \in BOOLEAN}

AreaArgs ==
    {[DefaultArgs EXCEPT !.pad_num = n, !.pad_min_deg = d, !.gpx_merge_singletons = TRUE] :
        n \in {-5, 2}, d \in {-Deg(1), 0, Deg(1)}}

ArgSet == TrackArgs \cup MarkerArgs \cup AreaArgs

InitWith(a, files) ==
    /\ args = a
    /\ inputs = files
    /\ idx = 1
    /\ pc = "files"
    /\ markers = <<>>
    /\ seen_markers = {}
    /\ dates = <<>>
    /\ collected_segments = <<>>
    /\ min_lat = Inf /\ min_lon = Inf
    /\ max_lat = -Inf /\ max_lon = -Inf
    /\ features = <<>>
    /\ geometries = <<>>
    /\ area = NoArea
    /\ cands = <<>>
    /\ pre_cap = <<>>
    /\ pre_thin = <<>>
    /\ meta_date = NoDate
    /\ marker_hist = <<>>

Init == \E a \in ArgSet, files \in InputLists(MaxFiles) : InitWith(a, files)

Next ==
    \/ SkipMissing
    \/ SkipUnsupported
    \/ ProcessPos
    \/ ProcessTrack
    \/ CapTrackPoints
    \/ EmitGeometry
    \/ RecomputeBounds
    \/ ThinMarkers
    \/ BuildArea

Spec == Init /\ [][Next]_vars

----------------------------------------------------------------------------
(* The file list given twice over *)

MaxHalf == 2       \* files in the list that is repeated

InitTwice == \E a \in MarkerArgs, files \in InputLists(MaxHalf) : InitWith(a, files \o files)

SpecTwice == InitTwice /\ [][Next]_vars

----------------------------------------------------------------------------
(* One GPX file of generated segments: the capping step on every mix of lengths *)

MaxSegs == 2       \* segments in the generated file
MaxSegLen == 5     \* points of a generated segment
MaxCapOne == 6     \* --cap-track-points for the generated file

SegLens == ListsUpTo(2..MaxSegLen, MaxSegs) \ {<<>>}

\* segment i of the generated file starts at latitude 10 * (i - 1)
LensFile(lens) ==
    FileOf("gpx", <<"g">>, [i \in 1..Len(lens) |-> Line(lens[i], 10 * (i - 1), 0)],
           <<>>, <<>>, <<2024, 1, 1>>)

InitCap ==
    \E lens \in SegLens, t \in 1..MaxThin, c \in {0} \cup 3..MaxCapOne :
        InitWith([DefaultArgs EXCEPT !.thin = t, !.cap_track_points = c], <<LensFile(lens)>>)

NextCap == ProcessTrack \/ CapTrackPoints \/ EmitGeometry

SpecCap == InitCap /\ [][NextCap]_vars

----------------------------------------------------------------------------
(* One POS file of generated waypoints: marker thinning on every count and cap *)

MaxMarkerRows == 10   \* waypoints in the generated file
MaxMarkerCap == 9     \* --max-markers for the generated file

\* waypoint i is named "n<i>" and lies at (i, i) degrees
RowsFile(n) ==
    FileOf("pos", <<"p">>, <<>>, <<>>,
           [i \in 1..n |-> Row(Deg(i), Deg(i), <<"n">> \o IntToStr(i))], NoDate)

InitThin ==
    \E n \in 1..MaxMarkerRows, m \in 0..MaxMarkerCap, t \in BOOLEAN :
        InitWith([DefaultArgs EXCEPT !.max_markers = m, !.thin_markers = t], <<RowsFile(n)>>)

NextThin == ProcessPos \/ CapTrackPoints \/ EmitGeometry \/ RecomputeBounds \/ ThinMarkers

SpecThin == InitThin /\ [][NextThin]_vars

----------------------------------------------------------------------------
(* One GPX file with one 2-point segment: the area on every extent and padding *)

\* latitudes and longitudes of the two points; float() accepts the values beyond
\* the world bounds
AreaLats == {Deg(-95), Deg(-90), Deg(10), Deg(90), Deg(95)}
AreaLons == {Deg(-190), Deg(-180), Deg(20), Deg(180), Deg(190)}
\* --pad-frac (in tenths) and --pad-min-deg
PadNums == {-20, -5, 0, 2, 20}
PadMinDegs == {-Deg(200), -Deg(1), 0, Deg(1), Deg(200)}

TwoPointFile(p, q) ==
    FileOf("gpx", <<"g">>, <<<<p, q>>>>, <<>>, <<>>, <<2024, 1, 1>>)

InitArea ==
    \E la \in AreaLats, lb \in AreaLats, lo \in AreaLons, lp \in AreaLons,
       n \in PadNums, d \in PadMinDegs :
        /\ la <= lb
        /\ InitWith([DefaultArgs EXCEPT !.pad_num = n, !.pad_min_deg = d],
                    <<TwoPointFile(<<la, lo>>, <<lb, lp>>)>>)

NextArea ==
    ProcessTrack \/ CapTrackPoints \/ EmitGeometry \/ RecomputeBounds \/ ThinMarkers \/ BuildArea

SpecArea == InitArea /\ [][NextArea]_vars

----------------------------------------------------------------------------
(* One GPX file with one segment of chosen points, emitted as polyline6 *)

MaxPolyLen == 3    \* points of the encoded segment

\* points inside the valid ranges: the corners of the world, ties of the rounding
\* to 10^-6 degrees (50 and 150 hundred-millionths), values just off a tie, and
\* negative and positive deltas between them
PolyPoints ==
    {<<Deg(-90), Deg(-180)>>, <<Deg(90), Deg(180)>>, <<0, 0>>,
     <<50, -50>>, <<150, -150>>, <<100, -100>>,
     <<Deg(38) + 49, Deg(-120) - 151>>, <<Deg(90) - 250, Deg(-180) + 250>>}

PolyLists == {l \in ListsUpTo(PolyPoints, MaxPolyLen) : Len(l) >= 2}

InitPoly ==
    \E l \in PolyLists :
        InitWith([DefaultArgs EXCEPT !.out_type = "polyline6"],
                 <<FileOf("gpx", <<"g">>, <<l>>, <<>>, <<>>, <<2024, 1, 1>>)>>)

NextPoly == ProcessTrack \/ CapTrackPoints \/ EmitGeometry

SpecPoly == InitPoly /\ [][NextPoly]_vars

----------------------------------------------------------------------------
(* File-level faults under --strict and without it.  The handler of the file    *)
(* loop ("except Exception: [SKIP] ...; if args.strict: raise") runs only when  *)
(* a statement of the loop body raises.  A missing file is answered by the      *)
(* isfile test with "continue"; a file that does not open as XML or as a        *)
(* zip archive makes each parser and date helper return [] or None from its own *)
(* try/except, and the marker loop sits in a try/except of its own.  So the     *)
(* body raises for none of these files and the handler has no action here.      *)

MaxFaultFiles == 3   \* files on the command line

\* m.gpx is not there; b.gpx and b.kmz are cut off in the middle, with the content
\* of a.gpx and of a small KML document before the cut
FBadGpx == [FileOf("gpx", <<"b">>, <<Line(5, 0, 0)>>, <<>>,
                   <<Row(Deg(12), Deg(22), <<"B">>)>>, <<2024, 1, 3>>) EXCEPT !.parses = FALSE]
FBadKmz == [FileOf("kmz", <<"z">>, <<Line(3, -10, -30)>>, <<>>,
                   <<Row(Deg(1), Deg(2), <<"P">>)>>, <<2024, 1, 2>>) EXCEPT !.parses = FALSE]

FaultFileSet == {FMissing, FBadGpx, FBadKmz, FGpx, FPosA, FTrc}

InitFault ==
    \E st \in BOOLEAN, files \in (ListsUpTo(FaultFileSet, MaxFaultFiles) \ {<<>>}) :
        InitWith([DefaultArgs EXCEPT !.strict = st], files)

NextFault ==
    \/ SkipMissing
    \/ ProcessPos
    \/ ProcessTrack
    \/ CapTrackPoints
    \/ EmitGeometry
    \/ RecomputeBounds
    \/ ThinMarkers
    \/ BuildArea

SpecFault == InitFault /\ [][NextFault]_vars

----------------------------------------------------------------------------
(* One file of two points, in each format, with coordinates inside and outside  *)
(* the world bounds                                                             *)

\* whole degrees, signed; 95 and 190 are beyond the bounds
RawLats == {-95, 10, 90, 95}
RawLons == {-190, 20, 180}
RawPoints == {<<la, lo>> : la \in RawLats, lo \in RawLons}

Abs(x) == IF x < 0 THEN -x ELSE x
\* the degrees-minutes field "dd00.0" and the hemisphere letters of a raw point
DmOf(d) == 100 * Abs(d)
NsOf(p) == IF p[1] < 0 THEN "S" ELSE "N"
EwOf(p) == IF p[2] < 0 THEN "W" ELSE "E"

\* the row parse_pos_file / parse_positions_trc makes of a $GPWPL sentence
WplRow(lat_dm, ns, lon_dm, ew, name) ==
    Row(IF ns = "S" THEN -dm_to_deg(lat_dm) ELSE dm_to_deg(lat_dm),
        IF ew = "W" THEN -dm_to_deg(lon_dm) ELSE dm_to_deg(lon_dm), name)

DegPoint(p) == <<Deg(p[1]), Deg(p[2])>>
WplOf(p, name) == WplRow(DmOf(p[1]), NsOf(p), DmOf(p[2]), EwOf(p), name)

\* <trkseg> of p and q, <wpt> at p            (float() of the attributes)
GpxOfPoints(p, q) ==
    FileOf("gpx", <<"g">>, <<<<DegPoint(p), DegPoint(q)>>>>, <<>>,
           <<Row(Deg(p[1]), Deg(p[2]), <<"W">>)>>, NoDate)
\* <LineString> of p and q, <Placemark><Point> at p   (float() of the tokens)
KmlOfPoints(p, q) ==
    FileOf("kml", <<"k">>, <<<<DegPoint(p), DegPoint(q)>>>>, <<>>,
           <<Row(Deg(p[1]), Deg(p[2]), <<"W">>)>>, NoDate)
\* $GPRMC for p, $GPGGA for q, $GPWPL at p
NmeaOfPoints(p, q) ==
    [FileOf("nmea", <<"n">>, <<>>, <<>>, <<WplOf(p, <<"W">>)>>, NoDate)
        EXCEPT !.lines = <<PosLine("RMC", "A", DmOf(p[1]), NsOf(p), DmOf(p[2]), EwOf(p)),
                           PosLine("GGA", "", DmOf(q[1]), NsOf(q), DmOf(q[2]), EwOf(q))>>]
\* the lines "<lon> <lat>" of p and q, no waypoint
LogOfPoints(p, q) ==
    [FileOf("log", <<"l">>, <<>>, <<>>, <<>>, NoDate)
        EXCEPT !.lines = NumLines(<<DegPoint(p), DegPoint(q)>>)]
\* $GPWPL at p and at q
PosOfPoints(p, q) ==
    FileOf("pos", <<"p">>, <<>>, <<>>, <<WplOf(p, <<"W">>), WplOf(q, <<"V">>)>>, NoDate)

Orders == {"none", "lonlat", "latlon"}

InitValid ==
    \E p \in RawPoints, q \in RawPoints, o \in Orders :
        \E f \in {GpxOfPoints(p, q), KmlOfPoints(p, q), NmeaOfPoints(p, q),
                   LogOfPoints(p, q), PosOfPoints(p, q)} :
            /\ o # "none" => f.ext = "log"
            /\ InitWith([DefaultArgs EXCEPT !.order = o], <<f>>)

NextValid ==
    \/ ProcessPos
    \/ ProcessTrack
    \/ CapTrackPoints
    \/ EmitGeometry
    \/ RecomputeBounds
    \/ ThinMarkers
    \/ BuildArea

SpecValid == InitValid /\ [][NextValid]_vars

----------------------------------------------------------------------------
(* One GPX or KML file with a 2-point line and waypoints, some of them with a   *)
(* lat or lon attribute that is not a number                                    *)

MaxWpts == 3       \* waypoints of the file

\* waypoint i: named "n<i>" at (i, i) degrees, or with lat="abc", or with lon="abc"
WptChoices(i) ==
    {Row(Deg(i), Deg(i), <<"n">> \o IntToStr(i)),
     Row(Malformed, Deg(i), <<"n">> \o IntToStr(i)),
     Row(Deg(i), Malformed, <<"n">> \o IntToStr(i))}

RECURSIVE WptLists(_)
WptLists(n) ==
    IF n = 0 THEN {<<>>}
    ELSE {Append(l, r) : l \in WptLists(n - 1), r \in WptChoices(n)}

InitWpt ==
    \E n \in 1..MaxWpts, ext \in {"gpx", "kml"} :
        \E rows \in WptLists(n) :
            InitWith(DefaultArgs,
                     <<FileOf(ext, <<"w">>, <<Line(2, 50, 60)>>, <<>>, rows, NoDate)>>)

NextWpt ==
    \/ ProcessTrack
    \/ CapTrackPoints
    \/ EmitGeometry
    \/ RecomputeBounds
    \/ ThinMarkers
    \/ BuildArea

SpecWpt == InitWpt /\ [][NextWpt]_vars

----------------------------------------------------------------------------
(* One .nmea file of date-bearing and other sentences, in every order *)

MaxDateLines == 3  \* lines of the file

\* $GPZDA with 2024-01-05 and 2024-01-03; $GPZDA with day 00 and with 30 February;
\* $GPRMC with 040124, and with 020124 but no fix (empty N/S field, so the date
\* grammar does not match); $GPGGA, which carries no date
DateLineSet ==
    {ZdaLine(5, 1, 2024), ZdaLine(3, 1, 2024), ZdaLine(0, 1, 2024), ZdaLine(30, 2, 2024),
     RmcLine("A", 1000, "N", 2000, "E", 4, 1, 24),
     RmcLine("V", 0, "", 0, "", 2, 1, 24),
     PosLine("GGA", "", 1100, "N", 2100, "E")}

InitDate ==
    \E lines \in (ListsUpTo(DateLineSet, MaxDateLines) \ {<<>>}) :
        InitWith([DefaultArgs EXCEPT !.out_type = "polyline"],
                 <<[FileOf("nmea", <<"d">>, <<>>, <<>>, <<>>, NoDate) EXCEPT !.lines = lines]>>)

NextDate == ProcessTrack \/ CapTrackPoints \/ EmitGeometry

SpecDate == InitDate /\ [][NextDate]_vars

----------------------------------------------------------------------------
(* One .log file: a line of numbers in every combination, then the line "20 10" *)

MaxNums == 3       \* numbers on the first line

\* beyond both ranges, between the two ranges, on the bounds and inside both
NumChoices == {Deg(-200), Deg(-100), Deg(50), Deg(90), Deg(180), Deg(200)}

NumLists == ListsUpTo(NumChoices, MaxNums)

InitPair ==
    \E nums \in NumLists, o \in Orders :
        InitWith([DefaultArgs EXCEPT !.order = o],
                 <<[FileOf("log", <<"l">>, <<>>, <<>>, <<>>, NoDate)
                      EXCEPT !.lines = <<NumLine(nums), NumLine(<<Deg(20), Deg(10)>>)>>]>>)

NextPair == ProcessTrack \/ CapTrackPoints \/ EmitGeometry

SpecPair == InitPair /\ [][NextPair]_vars

----------------------------------------------------------------------------
(* One GPX file whose segment and whose waypoints have their extreme point at   *)
(* a chosen position, first, interior or last, under capping and marker thinning *)

\* Line(n, 0, 0) with point k moved to (50, 100); k = 0 leaves the line as it is
PeakLine(n, k) ==
    [i \in 1..n |-> IF i = k THEN <<Deg(50), Deg(100)>> ELSE Line(n, 0, 0)[i]]

\* n waypoints "n<i>" at (i, i) degrees, waypoint j moved to (-50, -100)
PeakRows(n, j) ==
    [i \in 1..n |-> Row(IF i = j THEN Deg(-50) ELSE Deg(i),
                        IF i = j THEN Deg(-100) ELSE Deg(i), <<"n">> \o IntToStr(i))]

InitBox ==
    \E k \in 0..MaxSegLen, j \in 0..MaxSegLen, c \in {0, MaxCap}, m \in {0, MaxCap},
       t \in BOOLEAN :
        InitWith([DefaultArgs EXCEPT !.cap_track_points = c, !.max_markers = m,
                                     !.thin_markers = t],
                 <<FileOf("gpx", <<"x">>, <<PeakLine(MaxSegLen, k)>>, <<>>,
                          PeakRows(MaxSegLen, j), NoDate)>>)

NextBox ==
    \/ ProcessTrack
    \/ CapTrackPoints
    \/ EmitGeometry
    \/ RecomputeBounds
    \/ ThinMarkers
    \/ BuildArea

SpecBox == InitBox /\ [][NextBox]_vars

----------------------------------------------------------------------------
(* One POS or GPX file with a waypoint whose name has a chosen length and an    *)
(* unnamed waypoint, under every --max-name-len                                 *)

MaxNameChars == 4  \* characters of the waypoint name
MaxNameLen == 3    \* --max-name-len

\* the name "123..." of n characters
NameOfLen(n) == [i \in 1..n |-> DigitChar[(i % 10) + 1]]

InitName ==
    \E n \in 1..MaxNameChars, l \in -1..MaxNameLen, ext \in {"pos", "gpx"} :
        InitWith([DefaultArgs EXCEPT !.max_name_len = l],
                 <<FileOf(ext, <<"s">>, <<>>, <<>>,
                          <<Row(Deg(1), Deg(2), NameOfLen(n)), Row(Deg(3), Deg(4), <<>>)>>,
                          NoDate)>>)

NextName ==
    \/ ProcessPos
    \/ ProcessTrack
    \/ CapTrackPoints
    \/ EmitGeometry
    \/ RecomputeBounds
    \/ ThinMarkers

SpecName == InitName /\ [][NextName]_vars

----------------------------------------------------------------------------
(* Claims *)

AfterCap == pc \in {"emit", "bounds", "thin", "area", "done"}
AfterEmit == pc \in {"bounds", "thin", "area", "done"}

\* the capping step ran: the cap is non-zero and the collected total exceeded it
CapRan ==
    /\ AfterCap
    /\ args.cap_track_points # 0
    /\ total_pts(pre_cap) > args.cap_track_points

\* C1 (as claimed): whenever the collected total exceeds a non-zero cap, the total
\* point count over all segments after the capping step is at most the cap.
C1_TotalAtMostCap == CapRan => total_pts(collected_segments) <= args.cap_track_points

\* C2 (as claimed): whenever the capping step runs, every collected segment is still
\* present afterwards, with the first and the last point it had before.
C2_EndpointsKept ==
    CapRan =>
        /\ Len(collected_segments) = Len(pre_cap)
        /\ \A i \in 1..Len(pre_cap) :
              LET old == pre_cap[i].points
                  new == collected_segments[i].points
              IN  new[1] = old[1] /\ new[Len(new)] = old[Len(old)]

\* the standard polyline decoder: 5-bit groups, continuation bit 0x20, offset 63,
\* zig-zag, cumulative deltas; the result is the list of integer pairs
RECURSIVE DecodeGroups(_, _, _, _)
DecodeGroups(chars, pos, mult, result) ==
    LET b == chars[pos] - 63
        r == result + (b % 32) * mult
    IN  IF b >= 32 THEN DecodeGroups(chars, pos + 1, mult * 32, r)
        ELSE [value |-> IF r % 2 = 1 THEN -((r \div 2) + 1) ELSE r \div 2, next |-> pos + 1]

RECURSIVE DecodeFrom(_, _, _, _)
DecodeFrom(chars, pos, lat, lon) ==
    IF pos > Len(chars) THEN <<>>
    ELSE LET a == DecodeGroups(chars, pos, 1, 0)
             b == DecodeGroups(chars, a.next, 1, 0)
         IN  <<<<lat + a.value, lon + b.value>>>>
                \o DecodeFrom(chars, b.next, lat + a.value, lon + b.value)

DecodePolyline(chars) == DecodeFrom(chars, 1, 0, 0)

\* the number of points of each emitted geometry
EmittedLens ==
    [i \in 1..Len(features) |-> Len(features[i].coordinates)]
    \o [i \in 1..Len(geometries) |->
          IF geometries[i].type = "polyline6"
          THEN Len(DecodePolyline(geometries[i].value))
          ELSE Len(geometries[i].value)]

\* C3 (as claimed): every segment that reaches the output has at least 2 points,
\* whatever the per-file stride and the global cap.
C3_EmittedAtLeastTwo == AfterEmit => \A i \in 1..Len(EmittedLens) : EmittedLens[i] >= 2

AfterThin == pc \in {"area", "done"}

\* marker thinning ran: thinning is enabled and the count exceeded a non-zero cap
ThinRan ==
    /\ AfterThin
    /\ args.max_markers # 0
    /\ args.thin_markers
    /\ Len(pre_thin) > args.max_markers

Contains(s, x) == \E i \in 1..Len(s) : s[i] = x

\* C4 (as claimed, on the caps of 2 or more, where both endpoints fit): whenever
\* thinning is enabled and the marker count exceeds the cap, the reduced list
\* contains the original first and the original last marker.
C4_EndpointsKept ==
    ThinRan /\ args.max_markers >= 2 =>
        /\ Contains(markers, pre_thin[1])
        /\ Contains(markers, pre_thin[Len(pre_thin)])

\* sub is full with elements left out: same relative order, nothing repeated
\* (the elements of full are distinct)
RECURSIVE IsSubseq(_, _)
IsSubseq(sub, full) ==
    IF sub = <<>> THEN TRUE
    ELSE IF full = <<>> THEN FALSE
    ELSE IF Head(sub) = Head(full) THEN IsSubseq(Tail(sub), Tail(full))
    ELSE IsSubseq(sub, Tail(full))

Distinct(s) == \A i, j \in 1..Len(s) : i # j => s[i] # s[j]

CeilDiv(a, b) == (a + b - 1) \div b

\* C5 (as claimed): whenever thinning is enabled and the marker count n exceeds the
\* cap m >= 1, the reduced list has exactly m markers, all taken from the original
\* list in their original relative order without repetition.
C5_ExactlyCap ==
    ThinRan => /\ Len(markers) = args.max_markers
               /\ IsSubseq(markers, pre_thin)
               /\ Distinct(markers)

\* C5 (amended): the reduced list has min(m, 2 + ceil((n-2) / ceil(n/m))) markers,
\* which is at least 1 and at most m but can be fewer than m; all are taken from the
\* original list in their original relative order without repetition.
C5_AtMostCap ==
    ThinRan =>
        LET n == Len(pre_thin)
            m == args.max_markers
        IN  /\ Len(markers) = Min2(m, 2 + CeilDiv(n - 2, CeilDiv(n, m)))
            /\ Len(markers) >= 1
            /\ Len(markers) <= m
            /\ IsSubseq(markers, pre_thin)
            /\ Distinct(markers)

\* C5 witness: 6 markers thinned under a cap of 5 leave 4
C5_Witness ==
    /\ ThinRan
    /\ Len(pre_thin) = 6
    /\ args.max_markers = 5
    /\ Len(markers) = 4

\* C6: whenever an area rectangle is emitted, -90 <= lat1 <= lat2 <= 90 and
\* -180 <= lon1 <= lon2 <= 180, for every extent and every padding.
C6_AreaInWorld ==
    area # NoArea =>
        /\ -(90 * CoordK * PadDen) <= area.lat1
        /\ area.lat1 <= area.lat2
        /\ area.lat2 <= 90 * CoordK * PadDen
        /\ -(180 * CoordK * PadDen) <= area.lon1
        /\ area.lon1 <= area.lon2
        /\ area.lon2 <= 180 * CoordK * PadDen

\* C6 witness: an area was emitted although the padded box was inverted on both
\* axes and partly outside the world before clamping
C6_Witness ==
    LET plat == Max2(args.pad_num * (max_lat - min_lat), args.pad_min_deg * PadDen)
        plon == Max2(args.pad_num * (max_lon - min_lon), args.pad_min_deg * PadDen)
    IN  /\ pc = "done"
        /\ area # NoArea
        /\ min_lat * PadDen - plat > max_lat * PadDen + plat
        /\ min_lon * PadDen - plon > max_lon * PadDen + plon
        /\ max_lat > Deg(90)
        /\ min_lon < Deg(-180)

\* the (lat, lon) of every emitted track point and of every emitted marker
EmittedPoints ==
    LET pts == Flatten([i \in 1..Len(collected_segments) |-> collected_segments[i].points])
    IN  {pts[i] : i \in 1..Len(pts)}
          \cup {<<markers[i].lat, markers[i].lon>> : i \in 1..Len(markers)}

\* C7 (as claimed, on the runs whose padding is not negative): for every run that
\* emits an area, every emitted track point and every emitted marker lies inside
\* the rectangle.
C7_AreaContainsPoints ==
    pc = "done" /\ area # NoArea /\ args.pad_num >= 0 /\ args.pad_min_deg >= 0 =>
        \A p \in EmittedPoints :
            /\ area.lat1 <= p[1] * PadDen /\ p[1] * PadDen <= area.lat2
            /\ area.lon1 <= p[2] * PadDen /\ p[2] * PadDen <= area.lon2

\* the dedup key of a stored marker or candidate
KeyOf(m) == <<Round7(m.lat), Round7(m.lon), m.text>>

\* the candidates whose key no earlier candidate has
FirstOccurrences(cs) ==
    SelectSeqIdx(cs, LAMBDA i : \A j \in 1..(i - 1) : KeyOf(cs[j]) # KeyOf(cs[i]))

BeforeThin == pc \in {"files", "cap", "emit", "bounds", "thin"}

\* C8: after any sequence of input files, POS or not, no two accumulated markers
\* have the same dedup key (round(lat,7), round(lon,7), name), and the marker kept
\* for a key is the first candidate with that key in input order.
C8_FirstOccurrenceWins ==
    BeforeThin /\ ~args.no_text =>
        /\ \A i, j \in 1..Len(markers) : i # j => KeyOf(markers[i]) # KeyOf(markers[j])
        /\ markers = FirstOccurrences(cands)

\* C8 witness: a POS file then a GPX file were processed; two candidates with
\* different coordinates shared a key, and a GPX candidate repeated a POS key
C8_Witness ==
    /\ pc = "cap"
    /\ Len(inputs) = 2 /\ inputs[1].ext = "pos" /\ inputs[2].ext = "gpx"
    /\ \E i, j \in 1..Len(cands) :
          i < j /\ KeyOf(cands[i]) = KeyOf(cands[j]) /\ cands[i].lat # cands[j].lat
    /\ \E i \in 1..Len(marker_hist[1]) : \E j \in (Len(parse_pos_file(inputs[1])) + 1)..Len(cands) :
          KeyOf(cands[j]) = KeyOf(marker_hist[1][i])
    /\ Len(markers) < Len(cands)

Doubled(l) ==
    /\ Len(l) % 2 = 0
    /\ SubSeq(l, 1, Len(l) \div 2) = SubSeq(l, Len(l) \div 2 + 1, Len(l))

\* C9: processing the file list followed by the same list again yields the same
\* markers, and so the same marker count, as processing the list once.
C9_TwiceIsOnce ==
    pc # "files" /\ Doubled(inputs) =>
        /\ Len(marker_hist[Len(inputs)]) = Len(marker_hist[Len(inputs) \div 2])
        /\ marker_hist[Len(inputs)] = marker_hist[Len(inputs) \div 2]
        /\ BeforeThin => markers = marker_hist[Len(inputs) \div 2]

\* C9 witness: a GPX and a POS file, both with unnamed waypoints, were processed
\* twice over; the second pass offered every candidate again
C9_Witness ==
    /\ pc = "cap"
    /\ inputs = <<FGpx, FPosA, FGpx, FPosA>>
    /\ \E i \in 1..Len(markers) : markers[i].text = SynthName(<<"a">>, 2)
    /\ Len(cands) = 2 * (Len(FGpx.rows) + Len(FPosA.rows))
    /\ Len(markers) < Len(cands)

\* the precisions of the two polyline formats
PolyPrecisions == {5, 6}

\* decoding the encoding of points at a precision gives, point by point, the
\* integers round(coordinate * 10^precision), each within 10^-precision degrees of
\* the coordinate (FracPart counts 10^-8 degrees)
RoundTrips(points, precision) ==
    LET dec == DecodePolyline(encode_polyline(points, precision))
        unit == 10 ^ (8 - precision)
        Off(v, x) == unit * (v - (DegPart(x) \div CoordK) * (10 ^ precision)) - FracPart(x)
    IN  /\ Len(dec) = Len(points)
        /\ \A i \in 1..Len(points) :
              /\ dec[i][1] = ScaleRound(points[i][1], precision)
              /\ dec[i][2] = ScaleRound(points[i][2], precision)
              /\ -unit <= Off(dec[i][1], points[i][1]) /\ Off(dec[i][1], points[i][1]) <= unit
              /\ -unit <= Off(dec[i][2], points[i][2]) /\ Off(dec[i][2], points[i][2]) <= unit

InValidRange(p) ==
    /\ Deg(-90) <= p[1] /\ p[1] <= Deg(90)
    /\ Deg(-180) <= p[2] /\ p[2] <= Deg(180)

\* C10: for every sequence of points in the valid ranges, the standard polyline
\* decoder applied to encode_polyline's string yields exactly the integers
\* round(coordinate * 10^precision): the emitted polyline6 values decode to them,
\* and so does the encoding at either precision.
C10_PolylineRoundTrip ==
    \A i \in 1..Len(collected_segments) :
        LET points == collected_segments[i].points
        IN  (\A j \in 1..Len(points) : InValidRange(points[j])) =>
                /\ \A precision \in PolyPrecisions : RoundTrips(points, precision)
                /\ AfterEmit /\ args.out_type = "polyline6" =>
                      DecodePolyline(geometries[i].value) =
                          [j \in 1..Len(points) |-> <<ScaleRound(points[j][1], 6),
                                                      ScaleRound(points[j][2], 6)>>]

\* C10 witness: a polyline6 geometry was emitted for three points with a negative
\* delta, a tie of the rounding and a multi-character group
C10_Witness ==
    /\ AfterEmit
    /\ args.out_type = "polyline6"
    /\ Len(geometries) = 1
    /\ collected_segments[1].points = <<<<Deg(90), Deg(180)>>, <<150, -150>>, <<Deg(-90), Deg(-180)>>>>
    /\ Len(geometries[1].value) > 6
    /\ DecodePolyline(geometries[1].value) =
          <<<<90000000, 180000000>>, <<2, -2>>, <<-90000000, -180000000>>>>

\* a file-level fault: the file is missing, or it does not open as XML / as an archive
Faulty(f) == ~f.exists \/ ~f.parses

\* the markers as they were before file i
MarkersBefore(i) == IF i = 1 THEN <<>> ELSE marker_hist[i - 1]

\* C11 (as claimed): for every input file with a file-level fault, under --strict
\* the run aborts at that file, so the file loop never moves past it; without
\* --strict the file is skipped (it adds no marker, and no date is recorded for
\* it) and every later input file still gets its turn.
C11_FaultPolicy ==
    /\ \A i \in 1..Len(inputs) :
          Faulty(inputs[i]) =>
              /\ args.strict => idx <= i
              /\ ~args.strict /\ idx > i => marker_hist[i] = MarkersBefore(i)
              /\ ~args.strict /\ pc # "files" => Len(marker_hist) = Len(inputs)
    /\ ~args.strict =>
          Len(dates) <= Cardinality({i \in 1..Len(inputs) :
                                       ~Faulty(inputs[i]) /\ inputs[i].ext \in TrackExts})

\* C12 (as claimed): every track point of every emitted segment and every emitted
\* marker has its latitude in [-90,90] and its longitude in [-180,180], whichever
\* parser produced it; a waypoint out of range is dropped alone, so every waypoint
\* of the file that is in range is emitted.
C12_EmittedValid ==
    pc = "done" =>
        /\ \A p \in EmittedPoints : InLat(p[1]) /\ InLon(p[2])
        /\ \A i \in 1..Len(inputs[1].rows) :
              LET r == inputs[1].rows[i]
              IN  InLat(r.lat) /\ InLon(r.lon) =>
                    \E j \in 1..Len(markers) : markers[j].lat = r.lat /\ markers[j].lon = r.lon

\* the marker a waypoint row with a name becomes
MarkerOf(r) == [lat |-> r.lat, lon |-> r.lon, text |-> r.name]

\* C13 (as claimed): when waypoints of a GPX file have a lat or lon that is not a
\* number, only those waypoints are dropped: the markers are the other waypoints
\* of the file, in file order, and the file's segments are collected as they are.
C13_WaypointIsolation ==
    pc # "files" /\ inputs[1].ext = "gpx" =>
        /\ marker_hist[1] =
              [i \in 1..Len(NumericRows(inputs[1].rows)) |->
                  MarkerOf(NumericRows(inputs[1].rows)[i])]
        /\ AfterCap =>
              pre_cap = [i \in 1..Len(inputs[1].segs) |->
                           [points |-> inputs[1].segs[i], date |-> FileDate(inputs[1])]]

\* the calendar dates of the lines that match the ZDA or the RMC date grammar
LineDates(lines) ==
    {<<IF ZdaMatches(lines[i]) THEN lines[i].year ELSE 2000 + lines[i].year,
       lines[i].month, lines[i].day>> :
        i \in {j \in 1..Len(lines) : ZdaMatches(lines[j]) \/ RmcMatches(lines[j])}}

RealDates(lines) == {d \in LineDates(lines) : PossibleDate(d[1], d[2], d[3])}

\* C14 (as claimed): the date of a TRC/NMEA-like file is the minimum calendar date
\* over all its lines that match the ZDA or RMC date grammar, whatever their
\* order; a matching line with an impossible calendar date does not discard the
\* dates of the other lines; the modification date is used only when no line
\* gives a date.
C14_EarliestLineDate ==
    pc # "files" /\ inputs[1].ext \in NmeaExts =>
        LET real == RealDates(inputs[1].lines)
        IN  /\ Len(dates) = 1
            /\ real # {} => dates[1] \in real /\ \A d \in real : DateLe(dates[1], d)
            /\ real = {} => dates[1] = inputs[1].mtime

\* the dates the file loop records: one for every track file that is found, its
\* earliest timestamp or else its modification date; none for a POS file
RecordedDates ==
    {FileDate(inputs[i]) : i \in {j \in 1..Len(inputs) :
                                    inputs[j].exists /\ inputs[j].ext \in TrackExts}}

PolylineMode == args.out_type \in {"polyline", "polyline6"}

\* C15 (as claimed): in the polyline output modes body.meta.date is the minimum of
\* the per-file dates of the input files processed in the run, for every mix and
\* every order of the inputs.
C15_BatchDateAlways ==
    AfterEmit /\ PolylineMode /\ RecordedDates # {} =>
        /\ meta_date \in RecordedDates
        /\ \A d \in RecordedDates : DateLe(meta_date, d)

\* C15 (amended): in the polyline output modes body.meta.date is present exactly
\* when at least one geometry is emitted, and then it is the minimum of the dates
\* recorded for the track files of the run, in every order of the inputs; in the
\* GeoJSON mode it is absent.
C15_BatchDateWhenEmitted ==
    AfterEmit =>
        IF PolylineMode /\ geometries # <<>>
        THEN /\ meta_date \in RecordedDates
             /\ \A d \in RecordedDates : DateLe(meta_date, d)
        ELSE meta_date = NoDate

\* C15 witness: polyline output of a GPX file of 3 January followed by a TRC file
\* of 1 January: the date of the later input is the batch date
C15_Witness ==
    /\ AfterEmit
    /\ PolylineMode
    /\ inputs = <<FGpx, FTrc>>
    /\ dates = <<<<2024, 1, 3>>, <<2024, 1, 1>>>>
    /\ geometries # <<>>
    /\ meta_date = <<2024, 1, 1>>

\* the two readings of the adjacent pair at position i of nums
LonThenLat(nums, i) == InLon(nums[i]) /\ InLat(nums[i + 1])
LatThenLon(nums, i) == InLat(nums[i]) /\ InLon(nums[i + 1])

\* the positions of nums whose pair satisfies a reading
PairHits(nums) ==
    {i \in 1..(Len(nums) - 1) : LonThenLat(nums, i) \/ LatThenLon(nums, i)}

\* what the claim says find_pair returns for nums
ClaimedPair(nums) ==
    IF PairHits(nums) = {} THEN NoPair
    ELSE LET i == CHOOSE h \in PairHits(nums) : \A k \in PairHits(nums) : h <= k
         IN  IF LonThenLat(nums, i) THEN <<nums[i + 1], nums[i]>> ELSE <<nums[i], nums[i + 1]>>

\* the numbers of the first line of the file
FirstNums == inputs[1].lines[1].nums

\* C16: unforced, find_pair returns the result for the leftmost adjacent pair that
\* satisfies either reading, (lat=b, lon=a) whenever a is a longitude and b a
\* latitude and (lat=a, lon=b) only otherwise, and nothing iff no pair satisfies
\* a reading; a returned point has lat in [-90,90] and lon in [-180,180], and a
\* pair with both values in [-90,90] is read as longitude first.  The point the
\* file loop collects for the line is that result.
C16_FindPairUnforced ==
    LET r == find_pair(FirstNums, "none")
    IN  /\ r = ClaimedPair(FirstNums)
        /\ r = NoPair <=> PairHits(FirstNums) = {}
        /\ r # NoPair => InLat(r[1]) /\ InLon(r[2])
        /\ \A i \in 1..(Len(FirstNums) - 1) :
              (\A k \in 1..(i - 1) : k \notin PairHits(FirstNums))
                 /\ InLat(FirstNums[i]) /\ InLat(FirstNums[i + 1])
              => r = <<FirstNums[i + 1], FirstNums[i]>>
        /\ pc # "files" /\ args.order = "none" =>
              IF r = NoPair THEN collected_segments = <<>>
              ELSE collected_segments[1].points = <<r, <<Deg(10), Deg(20)>>>>

\* C16 witness: the line "200 50 -100" was read unforced: the pair (200, 50)
\* satisfies no reading, and (50, -100) only latitude-then-longitude
C16_Witness ==
    /\ pc # "files"
    /\ args.order = "none"
    /\ FirstNums = <<Deg(200), Deg(50), Deg(-100)>>
    /\ collected_segments[1].points[1] = <<Deg(50), Deg(-100)>>

\* C17 (as claimed): the min/max latitude and longitude from which the area is
\* computed are the min/max over exactly the emitted points: the track points left
\* after per-file thinning and capping and the markers left after suppression,
\* de-duplication and marker thinning; a removed point does not enlarge the box.
C17_BoxIsEmittedExtent ==
    AfterThin /\ EmittedPoints # {} =>
        /\ min_lat \in {p[1] : p \in EmittedPoints}
        /\ max_lat \in {p[1] : p \in EmittedPoints}
        /\ min_lon \in {p[2] : p \in EmittedPoints}
        /\ max_lon \in {p[2] : p \in EmittedPoints}
        /\ \A p \in EmittedPoints :
              /\ min_lat <= p[1] /\ p[1] <= max_lat
              /\ min_lon <= p[2] /\ p[2] <= max_lon

\* the names of the two waypoints of the file before truncation
GivenNames == <<inputs[1].rows[1].name, SynthName(inputs[1].stem, 1)>>

\* C18 (as claimed): for every --max-name-len L > 0 the name stored in a marker
\* and in its dedup key has at most L characters, a longer name being cut and
\* ended with the ellipsis character; for L = 0 the name is left unchanged.
C18_NameAtMostLen ==
    pc # "files" =>
        /\ Len(markers) = 2
        /\ \A i \in 1..2 :
              LET nm == markers[i].text
                  L == args.max_name_len
              IN  /\ <<Round7(markers[i].lat), Round7(markers[i].lon), nm>> \in seen_markers
                  /\ L > 0 => Len(nm) <= L
                  /\ L > 0 /\ Len(GivenNames[i]) > L => nm[Len(nm)] = Ellipsis
                  /\ L > 0 /\ Len(GivenNames[i]) <= L => nm = GivenNames[i]
                  /\ L = 0 => nm = GivenNames[i]

====
